---- MODULE Spec2Model ----
(***************************************************************************)
(* SteamClient::HandleMessage (handlers.cpp): the message dispatcher of    *)
(* the Steam client, its handshake, batch unpacking and decoders.          *)
(*                                                                         *)
(* Memory is modelled as byte sequences.  A pointer is an offset into a    *)
(* sequence; a read past the end of the sequence is a fault (the process   *)
(* crashes), a read past the end of an object but inside the sequence      *)
(* returns whatever bytes the environment put there.                       *)
(***************************************************************************)
EXTENDS Integers, Sequences, FiniteSets, TLC

VARIABLES
    build,      \* "debug": assert() is checked; "ndebug": assert() compiled out
    handlers,   \* the callbacks (onHandshake, onSentry, ...) that are set
    conn,       \* the SteamClient object and what the last call did
    call,       \* the arguments of the last (or pending) HandleMessage call
    pc,         \* "idle" between calls; "pending"/"done" for a single call
    stdlib      \* what std::find does when handed first > last

vars == <<build, handlers, conn, call, pc, stdlib>>

----------------------------------------------------------------------------
(* Bounds of the model *)

MaxKeys == 2        \* session keys generated on one connection
MaxHsCalls == 2     \* onHandshake invocations counted on one connection
MaxTimers == 1      \* heartbeat timers scheduled on one connection
MaxAfter == 4       \* mapped bytes after a buffer that an overrun can read

----------------------------------------------------------------------------
(* Program constants *)

EResultOK == 1      \* EResult::OK
LenField == 4       \* sizeof(std::uint32_t), the record length field
ShaLen == 20        \* length of the digest given to set_sha_file

Builds == {"debug", "ndebug"}

\* std::find(first, last, v) with first > last is undefined: an
\* implementation that compares pointers walks up from first until it meets v
\* or unmapped memory, one that counts last - first elements stops at once
StdLibs == {"walks", "counts"}

Callbacks == {"onHandshake", "onLogOn", "onSentry", "onUserInfo"}

ChatCallbacks == {"onChatMsg", "onChatEnter", "onChatStateChange"}

----------------------------------------------------------------------------
(* 32-bit unsigned values, kept as their four little-endian bytes *)

LE32(n) == <<n % 256, (n \div 256) % 256, (n \div 65536) % 256, 0>>

Small(w) == w[3] = 0 /\ w[4] = 0

\* the value of a word when it is below 2^16, and 65536 ("past any buffer
\* of the model") otherwise
Val(w) == IF Small(w) THEN w[1] + 256 * w[2] ELSE 65536

\* a + b modulo 2^32
Add32(a, b) ==
    LET s1 == a[1] + b[1]
        s2 == a[2] + b[2] + (s1 \div 256)
        s3 == a[3] + b[3] + (s2 \div 256)
        s4 == a[4] + b[4] + (s3 \div 256)
    IN  <<s1 % 256, s2 % 256, s3 % 256, s4 % 256>>

Fault == <<>>

\* *reinterpret_cast<const std::uint32_t*>(mem + off)
ReadU32(mem, off) ==
    IF off + 4 > Len(mem) THEN Fault ELSE SubSeq(mem, off + 1, off + 4)

Min(a, b) == IF a < b THEN a ELSE b

\* the bytes of mem in [off, off + n), as far as they are mapped
Bytes(mem, off, n) == SubSeq(mem, off + 1, Min(off + n, Len(mem)))

----------------------------------------------------------------------------
(* The SteamClient object *)

NoKey == 0

InitConn ==
    [encrypted  |-> FALSE,
     sessionKey |-> NoKey,
     status     |-> "running",
     timers     |-> <<>>,
     hsCalls    |-> 0,
     trace      |-> <<>>]

Log(s, e) == [s EXCEPT !.trace = Append(@, e)]

Abort(s, line) ==
    [Log(s, [ev |-> "abort", at |-> line]) EXCEPT !.status = "aborted"]

Crash(s) == [Log(s, [ev |-> "crash"]) EXCEPT !.status = "crashed"]


Hang(s) == [Log(s, [ev |-> "hang"]) EXCEPT !.status = "hung"]

\* the default of WriteMessage's job id parameter
NoJob == 0

\* WriteMessage(emsg, encrypted marker, size, writer, job_id): the message
\* handed to the send primitive
Send(s, emsg, marked, job_id, body) ==
    Log(s, [ev |-> "send", emsg |-> emsg, marked |-> marked, body |-> body,
            job |-> job_id])

Invoke(s, name, args) == Log(s, [ev |-> "callback", name |-> name, args |-> args])

----------------------------------------------------------------------------
(* The view HandleMessage gets of a message: data = mem + base, length = len.
   zip is what libarchive finds when the bytes are opened as an archive. *)

View(mem, base, len, zip) == [mem |-> mem, base |-> base, len |-> len, zip |-> zip]

\* all of [data, data + length) can be read
Mapped(d) == d.base + d.len <= Len(d.mem)

DataBytes(d) == Bytes(d.mem, d.base, d.len)

\* the n bytes at data + off, Fault when one of them is not mapped
Field(d, off, n) ==
    IF d.base + off + n > Len(d.mem) THEN Fault
    ELSE SubSeq(d.mem, d.base + off + 1, d.base + off + n)

\* the bytes [from, upto) of the message were read (offsets from data)
Load(s, from, upto) == Log(s, [ev |-> "load", from |-> from, upto |-> upto])

\* a read of the n bytes at data + off, then the rest of the handler
Loaded(s, d, off, n) ==
    IF Field(d, off, n) = Fault THEN Crash(Load(s, off, off + n))
    ELSE Load(s, off, off + n)

\* bytes that are no archive: archive_read_open_memory fails on them
NoArchive == [ok |-> FALSE, entries |-> <<>>]

\* what an uninitialised or wild read yields: the environment's bytes after
\* the buffer decide (no mapped byte: the read faults)
WildFaults(ub) == ub = <<>>
Fill(ub) == IF ub = <<>> THEN 0 ELSE ub[1]

----------------------------------------------------------------------------
(* case EMsg::ChannelEncryptRequest *)

\* RAND_bytes(sessionKey, sizeof(sessionKey)): a key unlike every earlier one
RandBytes(s) == s.sessionKey + 1

\* variant: a new request also takes the connection back to unencrypted
HandleChannelEncryptRequestResetting(s, d, job_id) ==
    LET key == RandBytes(s)
        crypted == [rsa_oaep |-> key]
        body == [crypted_sess_key |-> crypted, crc |-> [crc32 |-> crypted],
                 reserved |-> 0]
    IN  Send([s EXCEPT !.sessionKey = key, !.encrypted = FALSE],
             "ChannelEncryptResponse", FALSE, NoJob, body)

\* variant: a key that exists is sent again, not replaced
HandleChannelEncryptRequestKeepingKey(s, d, job_id) ==
    LET key == IF s.sessionKey = NoKey THEN RandBytes(s) ELSE s.sessionKey
        crypted == [rsa_oaep |-> key]
        body == [crypted_sess_key |-> crypted, crc |-> [crc32 |-> crypted],
                 reserved |-> 0]
    IN  Send([s EXCEPT !.sessionKey = key], "ChannelEncryptResponse", FALSE,
             NoJob, body)

HandleChannelEncryptRequest(s, d, job_id) ==
    LET key == RandBytes(s)
        crypted == [rsa_oaep |-> key]
        body == [crypted_sess_key |-> crypted, crc |-> [crc32 |-> crypted],
                 reserved |-> 0]
    IN  Send([s EXCEPT !.sessionKey = key], "ChannelEncryptResponse", FALSE,
             NoJob, body)

----------------------------------------------------------------------------
(* case EMsg::ChannelEncryptResult *)

\* assert(cond) at a source line: checked in a debug build only
AssertFails(cond) == build = "debug" /\ ~cond

SetEncrypted(s) ==
    Log([s EXCEPT !.encrypted = TRUE],
        [ev |-> "write", member |-> "encrypted flag", value |-> TRUE])

\* variant: the callback is invoked for the first result only
CallOnHandshakeOnce(s) ==
    IF "onHandshake" \in handlers /\ s.hsCalls = 0
    THEN [Invoke(s, "onHandshake", <<>>) EXCEPT !.hsCalls = @ + 1]
    ELSE s

CallOnHandshake(s) ==
    IF "onHandshake" \in handlers
    THEN [Invoke(s, "onHandshake", <<>>) EXCEPT !.hsCalls = @ + 1]
    ELSE s

\* variant: a result is accepted only after a request produced a key
HandleChannelEncryptResultAwaited(s, d, job_id) ==
    LET result == ReadU32(d.mem, d.base)
        s1 == IF build = "debug" THEN Loaded(s, d, 0, LenField) ELSE s
    IN  IF s1.status # "running" THEN s1
        ELSE IF AssertFails(result = LE32(EResultOK)) THEN Abort(s1, 68)
        ELSE IF s.sessionKey = NoKey THEN s1
        ELSE CallOnHandshake(SetEncrypted(s1))

HandleChannelEncryptResult(s, d, job_id) ==
    \* enc_result->result is read by the assertion only
    LET result == ReadU32(d.mem, d.base)
        s1 == IF build = "debug" THEN Loaded(s, d, 0, LenField) ELSE s
    IN  IF s1.status # "running" THEN s1
        ELSE IF AssertFails(result = LE32(EResultOK)) THEN Abort(s1, 68)
        ELSE CallOnHandshake(SetEncrypted(s1))

----------------------------------------------------------------------------
(* Message kinds and the sub-envelope header ReadMessage decodes *)

Kinds == {"ChannelEncryptRequest", "ChannelEncryptResult", "Multi",
          "ClientLogOnResponse", "ClientUpdateMachineAuth",
          "ClientPersonaState", "ClientChatMsg", "ClientChatEnter",
          "ClientChatMemberInfo"}

\* a kind HandleMessage has no case for
OtherKinds == {"ClientLoggedOff"}

EMsgCode(kind) ==
    CASE kind = "Multi" -> 1
      [] kind = "ChannelEncryptRequest" -> 3
      [] kind = "ChannelEncryptResult" -> 5
      [] kind = "ClientLogOnResponse" -> 7
      [] kind = "ClientUpdateMachineAuth" -> 9
      [] kind = "ClientPersonaState" -> 11
      [] kind = "ClientLoggedOff" -> 13
      [] kind = "ClientChatMsg" -> 15
      [] kind = "ClientChatEnter" -> 17
      [] kind = "ClientChatMemberInfo" -> 19

KindOfCode(c) ==
    IF \E k \in Kinds \cup OtherKinds : EMsgCode(k) = c
    THEN CHOOSE k \in Kinds \cup OtherKinds : EMsgCode(k) = c
    ELSE "Invalid"

\* the header of a sub-envelope: its kind and its job id
HdrLen == 2

RECURSIVE HandleMessage(_, _, _, _, _, _)

\* ReadMessage(data, length): decode the header the record carries and hand
\* the rest to HandleMessage
ReadMessage(s, mem, ptr, len, ub, depth) ==
    IF len < HdrLen THEN s
    ELSE IF ptr + HdrLen > Len(mem) THEN Crash(s)
    ELSE HandleMessage(s, KindOfCode(mem[ptr + 1]),
                       View(mem, ptr + HdrLen, len - HdrLen, NoArchive),
                       mem[ptr + 2], ub, depth + 1)

----------------------------------------------------------------------------
(* case EMsg::Multi *)

\* CMsgMulti::ParseFromArray: size_unzipped, then message_body
ParseMulti(bytes) ==
    IF bytes = <<>> THEN [size_unzipped |-> 0, message_body |-> <<>>]
    ELSE [size_unzipped |-> bytes[1], message_body |-> Tail(bytes)]

\* the line of the first assertion that fails while the archive is read,
\* 0 when none does
FailedArchiveCheck(zip, size_unzipped) ==
    IF ~zip.ok THEN 98
    ELSE IF zip.entries = <<>> THEN 102
    ELSE IF zip.entries[1].name # "z" THEN 103
    ELSE IF zip.entries[1].size # size_unzipped THEN 104
    ELSE IF Len(zip.entries[1].content) # size_unzipped THEN 107
    ELSE IF Len(zip.entries) # 1 THEN 109
    ELSE 0

\* archive_read_data(archive, buffer, size_unzipped): the bytes it stores
ArchiveReadData(zip, size_unzipped) ==
    IF zip.ok /\ zip.entries # <<>>
    THEN SubSeq(zip.entries[1].content, 1, Min(size_unzipped, Len(zip.entries[1].content)))
    ELSE <<>>

\* new unsigned char[size_unzipped] after archive_read_data: what was stored,
\* then uninitialised bytes
UnzippedBuffer(zip, size_unzipped, ub) ==
    LET stored == ArchiveReadData(zip, size_unzipped)
    IN  stored \o [i \in 1..(size_unzipped - Len(stored)) |-> Fill(ub)]

\* auto payload_size = size_unzipped ? size_unzipped : payload.size()
PayloadSize(size_unzipped, payload) ==
    IF size_unzipped # 0 THEN size_unzipped ELSE Len(payload)

\* variant: the length field itself is not skipped
NextOffsetNoHeader(offset, subSize) == Add32(offset, subSize)

\* offset += 4 + subSize, in unsigned (32-bit) arithmetic
NextOffset(offset, subSize) == Add32(offset, Add32(LE32(LenField), subSize))

\* the ReadMessage call of one loop iteration, as the trace records it
Dispatch(mem, payload_size, off, subSize, depth) ==
    [ev |-> "dispatch", ptr |-> off + LenField, depth |-> depth,
     bytes |-> Bytes(mem, off + LenField, Val(subSize)), size |-> subSize,
     oob |-> off + LenField + Val(subSize) > payload_size]

\* variant: the length field is handed over as the start of the record
RecordDataAtLengthField(offset) == Val(offset)

\* data + offset + 4, the first argument of ReadMessage
RecordData(offset) == Val(offset) + LenField

RECURSIVE WalkRecords(_, _, _, _, _, _, _)

\* for (unsigned offset = 0; offset < payload_size;) { ... }
WalkRecords(s, mem, payload_size, offset, visited, ub, depth) ==
    IF s.status # "running" \/ ~(Val(offset) < payload_size) THEN s
    ELSE IF offset \in visited THEN Hang(s)
    ELSE LET subSize == ReadU32(mem, Val(offset))
         IN  IF subSize = Fault THEN Crash(s)
             ELSE WalkRecords(
                      ReadMessage(Log(s, Dispatch(mem, payload_size, Val(offset), subSize, depth)),
                                  mem, RecordData(offset), Val(subSize), ub, depth),
                      mem, payload_size, NextOffset(offset, subSize),
                      visited \cup {offset}, ub, depth)

\* variant: the buffer is never released
FreeBufferLeaking(s, size_unzipped) == s

\* delete[] data, when a buffer was allocated
FreeBuffer(s, size_unzipped) ==
    IF s.status = "running" /\ size_unzipped > 0 THEN Log(s, [ev |-> "delete"]) ELSE s

\* variant: a batch inside a batch is not expanded
HandleMultiTopLevelOnly(s, d, job_id, ub, depth) ==
    LET msg_multi == ParseMulti(DataBytes(d))
        size_unzipped == msg_multi.size_unzipped
        payload == msg_multi.message_body
        failed == FailedArchiveCheck(d.zip, size_unzipped)
        mem == IF size_unzipped > 0
               THEN UnzippedBuffer(d.zip, size_unzipped, ub) \o ub
               ELSE payload \o <<0>> \o ub
        s1 == IF size_unzipped > 0
              THEN Log(s, [ev |-> "new", size |-> size_unzipped])
              ELSE s
    IN  IF depth > 1 THEN s
        ELSE IF size_unzipped > 0 /\ AssertFails(failed = 0) THEN Abort(s1, failed)
        ELSE FreeBuffer(WalkRecords(s1, mem, PayloadSize(size_unzipped, payload),
                                    LE32(0), {}, ub, depth),
                        size_unzipped)

HandleMulti(s, d, job_id, ub, depth) ==
    LET msg_multi == ParseMulti(DataBytes(d))
        size_unzipped == msg_multi.size_unzipped
        payload == msg_multi.message_body
        failed == FailedArchiveCheck(d.zip, size_unzipped)
        \* the copy of message_body: its bytes, the terminator, what follows
        mem == IF size_unzipped > 0
               THEN UnzippedBuffer(d.zip, size_unzipped, ub) \o ub
               ELSE payload \o <<0>> \o ub
        s1 == IF size_unzipped > 0
              THEN Log(s, [ev |-> "new", size |-> size_unzipped])
              ELSE s
    IN  IF size_unzipped > 0 /\ AssertFails(failed = 0) THEN Abort(s1, failed)
        ELSE FreeBuffer(WalkRecords(s1, mem, PayloadSize(size_unzipped, payload),
                                    LE32(0), {}, ub, depth),
                        size_unzipped)

----------------------------------------------------------------------------
(* case EMsg::ClientLogOnResponse *)

\* CMsgClientLogonResponse::ParseFromArray: eresult, then
\* out_of_game_heartbeat_seconds; a field that is absent reads as 0
ParseLogonResponse(bytes) ==
    [eresult |-> IF Len(bytes) >= 1 THEN bytes[1] ELSE 0,
     out_of_game_heartbeat_seconds |-> IF Len(bytes) >= 2 THEN bytes[2] ELSE 0]

CallOnLogOn(s, eresult) ==
    IF "onLogOn" \in handlers THEN Invoke(s, "onLogOn", <<eresult>>) ELSE s

\* setInterval(heartbeat, interval)
SetInterval(s, interval) ==
    [Log(s, [ev |-> "setInterval", interval |-> interval])
        EXCEPT !.timers = Append(@, interval)]

\* variant: the heartbeat is scheduled only when the logon is reported
HandleClientLogOnResponseListened(s, d, job_id) ==
    LET logon_resp == ParseLogonResponse(DataBytes(d))
        eresult == logon_resp.eresult
        interval == logon_resp.out_of_game_heartbeat_seconds
    IN  IF "onLogOn" \notin handlers THEN s
        ELSE IF eresult = EResultOK
        THEN SetInterval(CallOnLogOn(s, eresult), interval)
        ELSE CallOnLogOn(s, eresult)

HandleClientLogOnResponse(s, d, job_id) ==
    LET logon_resp == ParseLogonResponse(DataBytes(d))
        eresult == logon_resp.eresult
        interval == logon_resp.out_of_game_heartbeat_seconds
        s1 == CallOnLogOn(s, eresult)
    IN  IF eresult = EResultOK THEN SetInterval(s1, interval) ELSE s1

\* the timer's callback: WriteMessage(EMsg::ClientHeartBeat, true, ...)
HeartBeat(s) == Send(s, "ClientHeartBeat", TRUE, NoJob, [heartbeat |-> <<>>])

----------------------------------------------------------------------------
(* case EMsg::ClientUpdateMachineAuth *)

\* SHA1(bytes, length, NULL): the digest, ShaLen bytes
SHA1(bytes) == [sha1 |-> bytes, length |-> ShaLen]

\* variant: the reply is sent with the default job id
ReplyJobDefault(job_id) == NoJob

\* the job id the reply is sent with
ReplyJob(job_id) == job_id

\* variant: the reply is marked as the connection's flag says
HandleClientUpdateMachineAuthMarkedByFlag(s, d, job_id) ==
    IF "onSentry" \notin handlers THEN s
    ELSE LET bytes == DataBytes(d)
             sha == SHA1(bytes)
             s1 == Send(s, "ClientUpdateMachineAuthResponse", s.encrypted,
                        ReplyJob(job_id), [sha_file |-> sha])
         IN  Invoke(s1, "onSentry", <<sha>>)

HandleClientUpdateMachineAuth(s, d, job_id) ==
    IF "onSentry" \notin handlers THEN s
    ELSE LET bytes == DataBytes(d)
             sha == SHA1(bytes)
             s1 == Send(s, "ClientUpdateMachineAuthResponse", TRUE,
                        ReplyJob(job_id), [sha_file |-> sha])
         IN  Invoke(s1, "onSentry", <<sha>>)

----------------------------------------------------------------------------
(* case EMsg::ClientPersonaState *)

\* CMsgClientPersonaState::ParseFromArray: the repeated friends field, one
\* record a byte
ParsePersonaState(bytes) == [friends |-> bytes]

\* state.friends(0) and the callback
DispatchFirstFriend(s, friends, ub) ==
    IF friends = <<>>
    THEN \* friends(0) of an empty repeated field: a wild read
         IF WildFaults(ub) THEN Crash(Log(s, [ev |-> "read", what |-> "friends(0)"]))
         ELSE Invoke(Log(s, [ev |-> "read", what |-> "friends(0)"]),
                     "onUserInfo", <<Fill(ub)>>)
    ELSE Invoke(Log(s, [ev |-> "read", what |-> "friends(0)"]),
                "onUserInfo", <<friends[1]>>)

HandleClientPersonaState(s, d, job_id, ub) ==
    IF "onUserInfo" \notin handlers THEN s
    ELSE LET state == ParsePersonaState(DataBytes(d))
         IN  IF AssertFails(Len(state.friends) = 1) THEN Abort(s, 189)
             ELSE DispatchFirstFriend(s, state.friends, ub)

----------------------------------------------------------------------------
(* The fixed-layout chat messages.  The structs are declared outside this
   file; their packed layouts are: MsgClientChatMsg {u64 steamIdChatter,
   u64 steamIdChatRoom, u32 chatMsgType}, MsgClientChatEnter {u64 steamIdChat,
   u64 steamIdFriendChat, u32 chatRoomType, u64 steamIdOwner, u64 steamIdClan,
   u8 chatFlags, u32 enterResponse}, MsgClientChatMemberInfo {u64 steamIdChat,
   u32 type}. *)

SteamIdLen == 8                       \* sizeof(SteamID)
SizeofMsgClientChatMsg == 20
SizeofMsgClientChatEnter == 41
SizeofMsgClientChatMemberInfo == 12
OffsetOfEnterResponse == 37           \* offsetof(MsgClientChatEnter, enterResponse)
StateChange == 1                      \* EChatInfoType::StateChange

\* the offset of the first null byte at or after data + off, -1 when the
\* mapped memory has none
NullFrom(d, off) ==
    LET nulls == {i \in (d.base + off + 1)..Len(d.mem) : d.mem[i] = 0}
    IN  IF nulls = {} THEN -1
        ELSE (CHOOSE i \in nulls : \A j \in nulls : i <= j) - d.base - 1

\* std::find(begin, end, '\0') for begin <= end: the offset of the first null
\* byte of [begin, end), end when there is none, -1 when the search faults
FindNull(d, begin, end) ==
    LET region == Field(d, begin, end - begin)
        nulls == {i \in 1..(end - begin) : region[i] = 0}
    IN  IF begin = end THEN end
        ELSE IF region = Fault THEN -1
        ELSE IF nulls = {} THEN end
        ELSE begin + (CHOOSE i \in nulls : \A j \in nulls : i <= j) - 1

----------------------------------------------------------------------------
(* case EMsg::ClientChatMsg *)

\* the text argument when the search found a null at offset found: begin is
\* passed as it is and read as a C string
ChatTextInPlace(s, d, begin, found) ==
    Invoke(Load(s, begin, found + 1), "onChatMsg",
           <<Field(d, SteamIdLen, SteamIdLen), Field(d, 0, SteamIdLen),
             Field(d, begin, found - begin)>>)

\* the text argument when the search found none: std::string(begin, end - begin)
ChatTextCopied(s, d, begin, end) ==
    Invoke(Load(s, begin, end), "onChatMsg",
           <<Field(d, SteamIdLen, SteamIdLen), Field(d, 0, SteamIdLen),
             Field(d, begin, end - begin)>>)

HandleClientChatMsg(s, d, job_id) ==
    IF "onChatMsg" \notin handlers THEN s
    ELSE LET begin == SizeofMsgClientChatMsg
             end == d.len
             \* msg->steamIdChatRoom, msg->steamIdChatter
             s1 == Loaded(s, d, 0, 2 * SteamIdLen)
         IN  IF begin > end /\ stdlib = "counts"
             THEN \* the search ends at once, and std::string(begin, end - begin)
                  \* with a count that wrapped around throws std::length_error
                  [Log(s, [ev |-> "throw", what |-> "std::length_error"])
                        EXCEPT !.status = "thrown"]
             ELSE IF s1.status # "running" THEN s1
             ELSE IF begin > end
             THEN \* the search walks up from begin, past the message
                  IF NullFrom(d, begin) < 0
                  THEN Crash(Load(s1, begin, Len(d.mem) - d.base + 1))
                  ELSE ChatTextInPlace(s1, d, begin, NullFrom(d, begin))
             ELSE LET found == FindNull(d, begin, end)
                  IN  IF found < 0 THEN Crash(Load(s1, begin, end))
                      ELSE IF found = end THEN ChatTextCopied(s1, d, begin, end)
                      ELSE ChatTextInPlace(s1, d, begin, found)

----------------------------------------------------------------------------
(* case EMsg::ClientChatEnter *)

HandleClientChatEnter(s, d, job_id) ==
    IF "onChatEnter" \notin handlers THEN s
    ELSE LET chat_name == SizeofMsgClientChatEnter + LenField
             s1 == Loaded(s, d, SizeofMsgClientChatEnter, LenField)
             \* while (*members++);
             null == NullFrom(d, chat_name)
             members == null + 1
         IN  IF s1.status # "running" THEN s1
             ELSE IF null < 0 THEN Crash(Load(s1, chat_name, Len(d.mem) - d.base + 1))
             ELSE Invoke(Load(Load(Load(s1, chat_name, members), 0, SteamIdLen),
                              OffsetOfEnterResponse, OffsetOfEnterResponse + LenField),
                         "onChatEnter",
                         <<Field(d, 0, SteamIdLen),
                           Field(d, OffsetOfEnterResponse, LenField),
                           Field(d, chat_name, null - chat_name),
                           Field(d, SizeofMsgClientChatEnter, LenField),
                           members>>)

----------------------------------------------------------------------------
(* case EMsg::ClientChatMemberInfo *)

HandleClientChatMemberInfo(s, d, job_id) ==
    IF "onChatStateChange" \notin handlers THEN s
    ELSE LET payload == SizeofMsgClientChatMemberInfo
             s1 == Loaded(s, d, SteamIdLen, LenField)
             s2 == Loaded(s1, d, payload, SteamIdLen + LenField + SteamIdLen)
         IN  IF s1.status # "running" THEN s1
             ELSE IF Field(d, SteamIdLen, LenField) # LE32(StateChange) THEN s1
             ELSE IF s2.status # "running" THEN s2
             ELSE Invoke(Load(s2, 0, SteamIdLen), "onChatStateChange",
                         <<Field(d, 0, SteamIdLen),
                           Field(d, payload + SteamIdLen + LenField, SteamIdLen),
                           Field(d, payload, SteamIdLen),
                           Field(d, payload + SteamIdLen, LenField),
                           payload + SteamIdLen + LenField + SteamIdLen>>)

----------------------------------------------------------------------------
(* SteamClient::HandleMessage *)

\* the kinds whose case parses [data, data + length) as a protobuf message
ProtoKinds == {"Multi", "ClientLogOnResponse", "ClientUpdateMachineAuth",
               "ClientPersonaState"}

\* variant: a kind without a case runs the code of the handshake result
SwitchWithDefault(s, emsg, d, job_id, ub, depth) ==
    CASE emsg = "ChannelEncryptRequest" -> HandleChannelEncryptRequest(s, d, job_id)
      [] emsg = "Multi" -> HandleMulti(s, d, job_id, ub, depth)
      [] emsg = "ClientLogOnResponse" -> HandleClientLogOnResponse(s, d, job_id)
      [] emsg = "ClientUpdateMachineAuth" -> HandleClientUpdateMachineAuth(s, d, job_id)
      [] emsg = "ClientPersonaState" -> HandleClientPersonaState(s, d, job_id, ub)
      [] emsg = "ClientChatMsg" -> HandleClientChatMsg(s, d, job_id)
      [] emsg = "ClientChatEnter" -> HandleClientChatEnter(s, d, job_id)
      [] emsg = "ClientChatMemberInfo" -> HandleClientChatMemberInfo(s, d, job_id)
      [] OTHER -> CallOnHandshake(SetEncrypted(s))

Switch(s, emsg, d, job_id, ub, depth) ==
    CASE emsg = "ChannelEncryptRequest" -> HandleChannelEncryptRequest(s, d, job_id)
      [] emsg = "ChannelEncryptResult" -> HandleChannelEncryptResult(s, d, job_id)
      [] emsg = "Multi" -> HandleMulti(s, d, job_id, ub, depth)
      [] emsg = "ClientLogOnResponse" -> HandleClientLogOnResponse(s, d, job_id)
      [] emsg = "ClientUpdateMachineAuth" -> HandleClientUpdateMachineAuth(s, d, job_id)
      [] emsg = "ClientPersonaState" -> HandleClientPersonaState(s, d, job_id, ub)
      [] emsg = "ClientChatMsg" -> HandleClientChatMsg(s, d, job_id)
      [] emsg = "ClientChatEnter" -> HandleClientChatEnter(s, d, job_id)
      [] emsg = "ClientChatMemberInfo" -> HandleClientChatMemberInfo(s, d, job_id)
      [] OTHER -> s

Return(s, emsg, depth) ==
    IF s.status = "running"
    THEN Log(s, [ev |-> "return", emsg |-> emsg, depth |-> depth])
    ELSE s

HandleMessage(s, emsg, d, job_id, ub, depth) ==
    LET s1 == Log(s, [ev |-> "enter", emsg |-> emsg, job |-> job_id, depth |-> depth])
    IN  IF emsg \in ProtoKinds /\ ~Mapped(d) THEN Crash(s1)
        ELSE Return(Switch(s1, emsg, d, job_id, ub, depth), emsg, depth)

----------------------------------------------------------------------------
(* The messages the transport delivers *)

\* a sub-envelope as ReadMessage expects it
SubEnvelope(kind, job, data) == <<EMsgCode(kind), job>> \o data

\* one record of a batch: {u32 length}{length bytes}
Record(body) == LE32(Len(body)) \o body

RECURSIVE EncodeBatch(_)
EncodeBatch(bodies) ==
    IF bodies = <<>> THEN <<>>
    ELSE Record(Head(bodies)) \o EncodeBatch(Tail(bodies))

\* the payload is made of whole records
RECURSIVE WellFormedPayload(_)
WellFormedPayload(p) ==
    \/ p = <<>>
    \/ /\ Len(p) >= LenField
       /\ LenField + Val(SubSeq(p, 1, LenField)) <= Len(p)
       /\ WellFormedPayload(SubSeq(p, LenField + 1 + Val(SubSeq(p, 1, LenField)), Len(p)))

\* the serialised CMsgMulti
MultiBody(size_unzipped, message_body) == <<size_unzipped>> \o message_body

\* an archive holding one entry per element of entries
Archive(entries) == [ok |-> TRUE, entries |-> entries]
Entry(name, size, content) == [name |-> name, size |-> size, content |-> content]

\* the bytes an archive's container starts with
ZipMagic == <<80, 75, 3, 4>>

\* what may lie behind a buffer: nothing mapped, or MaxAfter bytes
Afters == {<<>>} \cup {[i \in 1..MaxAfter |-> b] : b \in {0, 255}}

ResultOK == LE32(EResultOK)
ResultFail == LE32(2)

Call(emsg, data, job_id, zip, ub) ==
    [emsg |-> emsg, job |-> job_id, zip |-> zip, ub |-> ub, data |-> data]

NoCall == Call("none", <<>>, NoJob, NoArchive, <<>>)

\* HandleMessage(c.emsg, c.data, Len(c.data), c.job) called by the transport
Handled(s, c) ==
    HandleMessage([s EXCEPT !.trace = <<>>], c.emsg,
                  View(c.data \o c.ub, 0, Len(c.data), c.zip), c.job, c.ub, 1)

WithinBounds(s) ==
    /\ s.sessionKey <= MaxKeys
    /\ s.hsCalls <= MaxHsCalls
    /\ Len(s.timers) <= MaxTimers

Deliver(c) ==
    /\ pc = "idle"
    /\ conn.status = "running"
    /\ LET s1 == Handled(conn, c)
       IN  WithinBounds(s1) /\ conn' = s1
    /\ call' = c
    /\ UNCHANGED <<build, handlers, pc, stdlib>>

Jobs == {NoJob, 5}

\* the batches of the connection-level specification
SmallBatches ==
    LET ok == SubEnvelope("ChannelEncryptResult", NoJob, ResultOK)
        fail == SubEnvelope("ChannelEncryptResult", NoJob, ResultFail)
        req == SubEnvelope("ChannelEncryptRequest", NoJob, <<>>)
        auth == SubEnvelope("ClientUpdateMachineAuth", 7, <<6>>)
        off == SubEnvelope("ClientLoggedOff", NoJob, <<>>)
        inner == SubEnvelope("Multi", NoJob, MultiBody(0, EncodeBatch(<<ok>>)))
        plain(bodies) == [zip |-> NoArchive, data |-> MultiBody(0, EncodeBatch(bodies))]
        zipped(name, bodies) ==
            [zip |-> Archive(<<Entry(name, Len(EncodeBatch(bodies)), EncodeBatch(bodies))>>),
             data |-> MultiBody(Len(EncodeBatch(bodies)), ZipMagic)]
    IN  {plain(<<ok>>), plain(<<req, ok>>), plain(<<auth, fail>>), plain(<<off>>),
         plain(<<inner>>), zipped("z", <<ok>>), zipped("y", <<ok>>),
         [zip |-> NoArchive, data |-> MultiBody(0, LE32(9) \o ok)]}

----------------------------------------------------------------------------
(* The connection: the transport delivers messages one at a time, the
   application sets callbacks, the timer service fires the heartbeat *)

Init ==
    /\ build \in Builds
    /\ handlers = {}
    /\ conn = InitConn
    /\ call = NoCall
    /\ pc = "idle"
    \* no chat message is delivered on this connection: one library stands
    \* for both
    /\ stdlib = "walks"

Register(cb) ==
    /\ pc = "idle"
    /\ cb \notin handlers
    /\ handlers' = handlers \cup {cb}
    /\ UNCHANGED <<build, conn, call, pc, stdlib>>

RecvChannelEncryptRequest ==
    Deliver(Call("ChannelEncryptRequest", <<>>, NoJob, NoArchive, <<>>))

RecvChannelEncryptResult ==
    \E data \in {ResultOK, ResultFail} :
        Deliver(Call("ChannelEncryptResult", data, NoJob, NoArchive, <<>>))

\* what lies behind the buffer matters to a walk that leaves it only
RecvMulti ==
    \E b \in SmallBatches, ub \in {<<>>, [i \in 1..MaxAfter |-> 0]} :
        /\ ub # <<>> => (b.zip.ok \/ ~WellFormedPayload(Tail(b.data)))
        /\ Deliver(Call("Multi", b.data, 5, b.zip, ub))

\* out_of_game_heartbeat_seconds of the delivered logon responses
Intervals == {9, 30}

RecvClientLogOnResponse ==
    \E eresult \in {EResultOK, 2}, interval \in Intervals :
        Deliver(Call("ClientLogOnResponse", <<eresult, interval>>, NoJob,
                     NoArchive, <<>>))

RecvClientUpdateMachineAuth ==
    \E bytes \in {<<>>, <<6>>}, job_id \in Jobs :
        Deliver(Call("ClientUpdateMachineAuth", bytes, job_id, NoArchive, <<>>))

RecvClientPersonaState ==
    \E friends \in {<<>>, <<4>>, <<4, 8>>}, ub \in {<<>>, [i \in 1..MaxAfter |-> 0]} :
        /\ ub # <<>> => friends = <<>>
        /\ Deliver(Call("ClientPersonaState", friends, NoJob, NoArchive, ub))

RecvOther ==
    \E emsg \in OtherKinds, job_id \in Jobs :
        Deliver(Call(emsg, <<1>>, job_id, NoArchive, <<>>))

\* the timer service runs the heartbeat callback of a scheduled timer
HeartBeatTick ==
    /\ pc = "idle"
    /\ conn.status = "running"
    /\ conn.timers # <<>>
    /\ conn' = HeartBeat([conn EXCEPT !.trace = <<>>])
    /\ call' = Call("timer", <<>>, NoJob, NoArchive, <<>>)
    /\ UNCHANGED <<build, handlers, pc, stdlib>>

Next ==
    \/ \E cb \in Callbacks : Register(cb)
    \/ RecvChannelEncryptRequest
    \/ RecvChannelEncryptResult
    \/ RecvMulti
    \/ RecvClientLogOnResponse
    \/ RecvClientUpdateMachineAuth
    \/ RecvClientPersonaState
    \/ RecvOther
    \/ HeartBeatTick

Spec == Init /\ [][Next]_vars

----------------------------------------------------------------------------
(* One batch message handled on a fresh connection: the inputs are drawn in
   the initial state and HandleMessage is applied to them *)

MaxRecords == 2     \* records of a generated batch

\* the sub-envelopes a generated batch is made of
SubBodies ==
    {<<>>,
     SubEnvelope("ClientLoggedOff", NoJob, <<1>>),
     SubEnvelope("ClientLoggedOff", 5, <<1, 2, 3>>),
     SubEnvelope("ChannelEncryptResult", NoJob, ResultOK),
     SubEnvelope("ChannelEncryptResult", NoJob, ResultFail)}

RecordLists == UNION {[1..n -> SubBodies] : n \in 0..MaxRecords}

\* payloads whose records do not add up: cut short, or with the first length
\* field overwritten
Truncations(p) == {SubSeq(p, 1, k) : k \in 1..(Len(p) - 1)}

BadLengths(p) ==
    IF Len(p) < LenField THEN {}
    ELSE {w \o SubSeq(p, LenField + 1, Len(p)) :
            w \in {LE32(Len(p)), <<252, 255, 255, 255>>, <<255, 255, 255, 255>>}}

Payloads ==
    UNION {{EncodeBatch(rs)} \cup Truncations(EncodeBatch(rs)) \cup BadLengths(EncodeBatch(rs)) :
            rs \in RecordLists}

\* the contents of the generated archives
Contents ==
    UNION {{EncodeBatch(rs), SubSeq(EncodeBatch(rs), 1, Len(EncodeBatch(rs)) - 1)}
             \cup BadLengths(EncodeBatch(rs)) : rs \in RecordLists} \ {<<>>}

\* the archives a compressed batch of content p and declared size n comes as
Archives(p) ==
    {Archive(<<Entry("z", Len(p), p)>>),
     Archive(<<Entry("y", Len(p), p)>>),
     Archive(<<Entry("z", Len(p) + 1, p)>>),
     Archive(<<Entry("z", Len(p), SubSeq(p, 1, Len(p) - 1))>>),
     Archive(<<Entry("z", Len(p), p), Entry("z", Len(p), p)>>),
     Archive(<<>>),
     NoArchive}

BatchCalls ==
    {Call("Multi", MultiBody(0, p), 5, NoArchive, ub) : p \in Payloads, ub \in Afters}
    \cup
    UNION {{Call("Multi", MultiBody(Len(p), ZipMagic), 5, z, ub) :
                z \in Archives(p), ub \in Afters} : p \in Contents}

InitBatch ==
    /\ build \in Builds
    /\ handlers = Callbacks
    /\ conn = InitConn
    /\ call \in BatchCalls
    /\ pc = "pending"
    \* no chat message is among the sub-envelopes
    /\ stdlib = "walks"

RunBatch ==
    /\ pc = "pending"
    /\ conn' = Handled(conn, call)
    /\ pc' = "done"
    /\ UNCHANGED <<build, handlers, call, stdlib>>

NextBatch == RunBatch

SpecBatch == InitBatch /\ [][NextBatch]_vars

----------------------------------------------------------------------------
(* One fixed-layout message handled on a fresh connection: whole messages
   and messages cut short, with and without the callbacks set *)

SteamID(n) == <<n, 0, 0, 0, 0, 0, 0, 0>>

\* MsgClientChatMsg: chatter 1 in room 2
ChatMsgHeader == SteamID(1) \o SteamID(2) \o LE32(1)

\* trailing text: none, "hi", "h\0i", "hi\0"
Texts == {<<>>, <<104, 105>>, <<104, 0, 105>>, <<104, 105, 0>>}

\* MsgClientChatEnter for room 2, then member_count, the name "R" and a
\* member record
ChatEnterMsg ==
    SteamID(2) \o SteamID(0) \o LE32(2) \o SteamID(3) \o SteamID(0) \o <<0>>
        \o LE32(1) \o LE32(1) \o <<82, 0>> \o <<7>>

\* MsgClientChatMemberInfo for room 2 and its payload
ChatMemberInfoMsg(type) ==
    SteamID(2) \o LE32(type) \o SteamID(4) \o LE32(1) \o SteamID(5) \o <<7>>

\* the message m and what is left of it when it is cut to a length of ks
Cuts(m, ks) == {m} \cup {SubSeq(m, 1, k) : k \in ks}

DecodeCalls ==
    {Call("ChannelEncryptResult", data, NoJob, NoArchive, ub) :
        data \in Cuts(ResultOK, {0, 2}) \cup {ResultFail}, ub \in Afters}
    \cup
    {Call("ClientChatMsg", data, NoJob, NoArchive, ub) :
        data \in {ChatMsgHeader \o text : text \in Texts}
                    \cup Cuts(ChatMsgHeader, {0, 16, 19}),
        ub \in Afters}
    \cup
    {Call("ClientChatEnter", data, NoJob, NoArchive, ub) :
        data \in Cuts(ChatEnterMsg, {0, 40, 44}), ub \in Afters}
    \cup
    {Call("ClientChatMemberInfo", data, NoJob, NoArchive, ub) :
        data \in Cuts(ChatMemberInfoMsg(StateChange), {0, 9, 11})
                    \cup {ChatMemberInfoMsg(2)},
        ub \in Afters}

InitDecode ==
    /\ build \in Builds
    /\ handlers \in {{}, Callbacks \cup ChatCallbacks}
    /\ conn = InitConn
    /\ call \in DecodeCalls
    /\ pc = "pending"
    /\ stdlib \in StdLibs

RunDecode ==
    /\ pc = "pending"
    /\ conn' = Handled(conn, call)
    /\ pc' = "done"
    /\ UNCHANGED <<build, handlers, call, stdlib>>

NextDecode == RunDecode

SpecDecode == InitDecode /\ [][NextDecode]_vars

----------------------------------------------------------------------------
(* What the properties below read from the trace of a call *)

CallbackEvents(tr, name) ==
    SelectSeq(tr, LAMBDA e : e.ev = "callback" /\ e.name = name)

EventsOf(tr, ev) == SelectSeq(tr, LAMBDA e : e.ev = ev)

\* the dispatches made by the walk of the outermost Multi call
TopDispatches(tr) ==
    SelectSeq(tr, LAMBDA e : e.ev = "dispatch" /\ e.depth = 1)

\* the kinds of the HandleMessage calls that are open after event i
RECURSIVE OpenCalls(_, _)
OpenCalls(tr, i) ==
    IF i = 0 THEN <<>>
    ELSE LET before == OpenCalls(tr, i - 1)
         IN  IF tr[i].ev = "enter" THEN Append(before, tr[i].emsg)
             ELSE IF tr[i].ev = "return" THEN SubSeq(before, 1, Len(before) - 1)
             ELSE before

\* the kind of the HandleMessage call that produced event i
Innermost(tr, i) == LET open == OpenCalls(tr, i) IN open[Len(open)]

\* this step is the transport delivering a message of kind emsg
IsDelivery(emsg) == call'.emsg = emsg /\ handlers' = handlers /\ pc = "idle"

----------------------------------------------------------------------------
(* C1: a ChannelEncryptResult whose result code is not EResult::OK leaves
   the encrypted flag as it was and does not invoke onHandshake, whether or
   not assertions are compiled in.  The code does not keep to it: without
   assertions line 70 and line 73 run for every result code. *)
C1_RejectedResultChangesNothing ==
    [][(IsDelivery("ChannelEncryptResult") /\ call'.data # ResultOK)
        => /\ conn'.encrypted = conn.encrypted
           /\ CallbackEvents(conn'.trace, "onHandshake") = <<>>]_vars

(* C2, as claimed: onHandshake is invoked at most once on a connection,
   however many OK results are handled. *)
C2_HandshakeCallbackAtMostOnce == conn.hsCalls <= 1

(* C2, amended: every ChannelEncryptResult carrying EResult::OK that is
   handled sets the flag and, when onHandshake is set, invokes it exactly
   once for that message, so a second OK result invokes it a second time. *)
C2_HandshakeCallbackPerOkResult ==
    [][(IsDelivery("ChannelEncryptResult") /\ call'.data = ResultOK)
        => /\ conn'.encrypted
           /\ Len(CallbackEvents(conn'.trace, "onHandshake"))
                = (IF "onHandshake" \in handlers THEN 1 ELSE 0)
           /\ conn'.hsCalls = conn.hsCalls
                + (IF "onHandshake" \in handlers THEN 1 ELSE 0)]_vars

C2_Witness ==
    /\ build = "debug"
    /\ call.emsg = "ChannelEncryptResult"
    /\ call.data = ResultOK
    /\ conn.hsCalls = 2

(* C3: the encrypted flag never goes back to false, and every change of it
   is made by a HandleMessage call for a ChannelEncryptResult: a step that
   changes the flag has a write of it in its trace, and each write of the
   flag is made directly by a ChannelEncryptResult call and writes true. *)
C3_EncryptedMonotoneSingleWriter ==
    [][/\ conn.encrypted => conn'.encrypted
       /\ conn'.encrypted # conn.encrypted
            => \E i \in 1..Len(conn'.trace) : conn'.trace[i].ev = "write"
       /\ \A i \in 1..Len(conn'.trace) :
            conn'.trace[i].ev = "write"
                => /\ conn'.trace[i].value = TRUE
                   /\ Innermost(conn'.trace, i) = "ChannelEncryptResult"]_vars

C3_Witness ==
    /\ conn.encrypted
    /\ conn.sessionKey = 2
    /\ call.emsg = "Multi"
    /\ \E i \in 1..Len(conn.trace) :
        conn.trace[i].ev = "enter" /\ conn.trace[i].emsg = "ChannelEncryptRequest"

(* C4, as claimed: the flag is true only if a ChannelEncryptRequest was
   handled before (which is when the session key is generated). *)
C4_EncryptedOnlyAfterRequest == conn.encrypted => conn.sessionKey # NoKey

(* C4, amended: the flag becomes true only while a ChannelEncryptResult is
   handled, and a ChannelEncryptResult that HandleMessage returns from
   leaves the flag true whether or not a ChannelEncryptRequest came first. *)
C4_EncryptedByResultAlone ==
    [][/\ (~conn.encrypted /\ conn'.encrypted)
            => \E i \in 1..Len(conn'.trace) :
                /\ conn'.trace[i].ev = "enter"
                /\ conn'.trace[i].emsg = "ChannelEncryptResult"
       /\ (IsDelivery("ChannelEncryptResult") /\ conn'.status = "running")
            => conn'.encrypted]_vars

C4_Witness ==
    /\ build = "debug"
    /\ conn.encrypted
    /\ conn.sessionKey = NoKey
    /\ call.emsg = "ChannelEncryptResult"

----------------------------------------------------------------------------
(* Batches, as the properties describe them *)

\* the payload is a concatenation of whole records
RECURSIVE WellFormed(_)
WellFormed(p) ==
    \/ p = <<>>
    \/ /\ Len(p) >= 4
       /\ Small(SubSeq(p, 1, 4))
       /\ 4 + Val(SubSeq(p, 1, 4)) <= Len(p)
       /\ WellFormed(SubSeq(p, 5 + Val(SubSeq(p, 1, 4)), Len(p)))

\* the records of a well-formed payload, each with its length field and body
RECURSIVE RecordsOf(_)
RecordsOf(p) ==
    IF p = <<>> THEN <<>>
    ELSE <<[bytes |-> SubSeq(p, 5, 4 + Val(SubSeq(p, 1, 4))), size |-> SubSeq(p, 1, 4)]>>
         \o RecordsOf(SubSeq(p, 5 + Val(SubSeq(p, 1, 4)), Len(p)))

\* what each dispatch of the outermost walk was given
Given(tr) ==
    [i \in 1..Len(TopDispatches(tr)) |->
        [bytes |-> TopDispatches(tr)[i].bytes, size |-> TopDispatches(tr)[i].size]]

IsPrefix(a, b) == Len(a) <= Len(b) /\ a = SubSeq(b, 1, Len(a))

Uncompressed(c) == c.emsg = "Multi" /\ c.data[1] = 0
Compressed(c) == c.emsg = "Multi" /\ c.data[1] > 0

\* a container with exactly one entry "z" whose declared size and content
\* length are the declared uncompressed size
GoodContainer(c) ==
    /\ c.zip.ok
    /\ Len(c.zip.entries) = 1
    /\ c.zip.entries[1].name = "z"
    /\ c.zip.entries[1].size = c.data[1]
    /\ Len(c.zip.entries[1].content) = c.data[1]

\* the same content sent as an uncompressed batch
SentUncompressed(c) ==
    Call("Multi", <<0>> \o c.zip.entries[1].content, c.job, NoArchive, c.ub)

(* C5: for an uncompressed batch whose payload is a well-formed
   concatenation of n records, the dispatches are made in payload order,
   each with exactly the length and the bytes of its record and nothing
   else, and when HandleMessage returns all n records have been dispatched
   (a sub-message whose handler ends the process ends the walk there). *)
C5_WellFormedBatchDispatchesItsRecords ==
    (pc = "done" /\ Uncompressed(call) /\ WellFormed(Tail(call.data)))
        => /\ IsPrefix(Given(conn.trace), RecordsOf(Tail(call.data)))
           /\ conn.status = "running"
                => Given(conn.trace) = RecordsOf(Tail(call.data))
           /\ conn.status \in {"running", "aborted"}

C5_Witness ==
    /\ pc = "done"
    /\ Uncompressed(call)
    /\ conn.status = "running"
    /\ Given(conn.trace) =
        <<[bytes |-> <<13, 0, 1>>, size |-> <<3, 0, 0, 0>>],
          [bytes |-> <<13, 5, 1, 2, 3>>, size |-> <<5, 0, 0, 0>>]>>

(* C6: when the records of a batch payload do not add up to the payload
   length, no sub-message is dispatched with bytes at or beyond the end of
   the payload.  The code does not keep to it: the walk checks neither the
   length field nor the body against payload_size. *)
C6_NoDispatchBeyondPayload ==
    (pc = "done" /\ Uncompressed(call) /\ ~WellFormed(Tail(call.data)))
        => \A i \in 1..Len(TopDispatches(conn.trace)) :
                ~TopDispatches(conn.trace)[i].oob

(* C7: a compressed batch with a good container of content B makes the same
   dispatches as the uncompressed batch of payload B.  The code keeps to it
   for a well-formed B only: for another B both walks read past the end of
   their buffer (C6), and what lies there differs. *)
C7_CompressedSameAsUncompressed ==
    (pc = "done" /\ Compressed(call) /\ GoodContainer(call))
        => TopDispatches(conn.trace)
            = TopDispatches(Handled(InitConn, SentUncompressed(call)).trace)

\* what does hold: the two agree whenever B is well-formed
C7_SameForWellFormedContent ==
    (pc = "done" /\ Compressed(call) /\ GoodContainer(call)
        /\ WellFormed(call.zip.entries[1].content))
        => /\ TopDispatches(conn.trace)
                = TopDispatches(Handled(InitConn, SentUncompressed(call)).trace)
           /\ Given(conn.trace) = RecordsOf(call.zip.entries[1].content)
                \/ conn.status = "aborted"

(* C8: a compressed batch whose container is not good (corrupt, wrong entry
   name, no entry or several, a size that differs) dispatches nothing, in
   every build.  The code does not keep to it: without assertions the walk
   runs over whatever the buffer holds. *)
C8_BadContainerDispatchesNothing ==
    (pc = "done" /\ Compressed(call) /\ ~GoodContainer(call))
        => EventsOf(conn.trace, "dispatch") = <<>>

----------------------------------------------------------------------------
(* Machine-auth and persona-state *)

\* the reply to a machine-auth request carrying bytes, with job id j
AuthReply(bytes, j) ==
    [ev |-> "send", emsg |-> "ClientUpdateMachineAuthResponse", marked |-> TRUE,
     body |-> [sha_file |-> [sha1 |-> bytes, length |-> 20]], job |-> j]

SentryCall(bytes) ==
    [ev |-> "callback", name |-> "onSentry", args |-> <<[sha1 |-> bytes, length |-> 20]>>]

\* the events of a call other than its enter and return
Effects(tr) == SelectSeq(tr, LAMBDA e : e.ev \notin {"enter", "return"})

(* C9, as claimed: every ClientUpdateMachineAuth handled with job id j
   sends exactly one reply, marked encrypted, with the digest of the
   request's bytes and job id j, and then invokes the sentry callback. *)
C9_EveryAuthRequestIsAnswered ==
    [][IsDelivery("ClientUpdateMachineAuth")
        => Effects(conn'.trace)
            = <<AuthReply(call'.data, call'.job), SentryCall(call'.data)>>]_vars

(* C9, amended: a ClientUpdateMachineAuth handled with job id j while
   onSentry is set sends exactly one ClientUpdateMachineAuthResponse, marked
   encrypted, with the 20-byte SHA-1 digest of the request's bytes and job
   id j, and after that invokes onSentry with the digest; while onSentry is
   not set the request is dropped: nothing is sent and nothing invoked. *)
C9_AuthRequestAnsweredWhenSentrySet ==
    [][IsDelivery("ClientUpdateMachineAuth")
        => /\ conn'.status = "running"
           /\ Effects(conn'.trace)
                = IF "onSentry" \in handlers
                  THEN <<AuthReply(call'.data, call'.job), SentryCall(call'.data)>>
                  ELSE <<>>]_vars

C9_Witness ==
    /\ call.emsg = "ClientUpdateMachineAuth"
    /\ call.job = 5
    /\ Effects(conn.trace) = <<AuthReply(<<6>>, 5), SentryCall(<<6>>)>>

(* C10: a ClientPersonaState with zero friend records or with two or more
   reads no friend record and does not invoke the user-info callback, in
   every build.  The code does not keep to it: without assertions line 190
   reads friends(0) and line 192 invokes the callback whatever the count. *)
C10_OnlyOneFriendIsDispatched ==
    (call.emsg = "ClientPersonaState" /\ Len(call.data) # 1)
        => /\ CallbackEvents(conn.trace, "onUserInfo") = <<>>
           /\ EventsOf(conn.trace, "read") = <<>>

----------------------------------------------------------------------------
(* The fixed-layout decoders *)

FixedLayoutKinds ==
    {"ChannelEncryptResult", "ClientChatMsg", "ClientChatEnter",
     "ClientChatMemberInfo"}

\* the length of the fixed portion of a kind's layout
FixedSize(emsg) ==
    CASE emsg = "ChannelEncryptResult" -> 4
      [] emsg = "ClientChatMsg" -> 20
      [] emsg = "ClientChatEnter" -> 41
      [] emsg = "ClientChatMemberInfo" -> 12

AnyCallback(tr) == SelectSeq(tr, LAMBDA e : e.ev = "callback")

(* C11: a ChannelEncryptResult, ClientChatMsg, ClientChatEnter or
   ClientChatMemberInfo whose length is below the fixed portion of its layout
   is dropped: no callback is invoked, no byte at or beyond the given length
   is read, and the encrypted flag keeps its value.  The code does not keep
   to it: no case compares length with the size of its struct. *)
C11_ShortEnvelopeIsDropped ==
    (pc = "done" /\ call.emsg \in FixedLayoutKinds
        /\ Len(call.data) < FixedSize(call.emsg))
        => /\ AnyCallback(conn.trace) = <<>>
           /\ \A i \in 1..Len(conn.trace) :
                conn.trace[i].ev = "load" => conn.trace[i].upto <= Len(call.data)
           /\ ~conn.encrypted

\* the trailing region of a chat message and the text it stands for
TrailingRegion(data) == SubSeq(data, 21, Len(data))

RECURSIVE UpToNull(_)
UpToNull(bytes) ==
    IF bytes = <<>> \/ Head(bytes) = 0 THEN <<>>
    ELSE <<Head(bytes)>> \o UpToNull(Tail(bytes))

ChatTexts(tr) ==
    LET calls == CallbackEvents(tr, "onChatMsg")
    IN  [i \in 1..Len(calls) |-> calls[i].args[3]]

(* C12: for a ClientChatMsg handled with onChatMsg set, the text passed to
   the callback is the trailing region (from the end of the fixed header to
   the length) up to the first null byte in it, the whole region when it has
   none, and never a byte at or beyond the length.  The code keeps to it for
   a message that holds the whole header only: for a shorter one (C11) the
   text starts beyond the length. *)
C12_ChatTextIsTrailingRegion ==
    (pc = "done" /\ call.emsg = "ClientChatMsg" /\ "onChatMsg" \in handlers)
        => /\ ChatTexts(conn.trace) = <<UpToNull(TrailingRegion(call.data))>>
           /\ \A i \in 1..Len(conn.trace) :
                conn.trace[i].ev = "load" => conn.trace[i].upto <= Len(call.data)

\* what does hold: the text of every message that holds the whole header
C12_TextOfWholeMessage ==
    (pc = "done" /\ call.emsg = "ClientChatMsg" /\ "onChatMsg" \in handlers
        /\ Len(call.data) >= 20)
        => /\ ChatTexts(conn.trace) = <<UpToNull(TrailingRegion(call.data))>>
           /\ \A i \in 1..Len(conn.trace) :
                conn.trace[i].ev = "load" => conn.trace[i].upto <= Len(call.data)

----------------------------------------------------------------------------
(* Logon, unhandled kinds *)

HeartBeatSend ==
    [ev |-> "send", emsg |-> "ClientHeartBeat", marked |-> TRUE,
     body |-> [heartbeat |-> <<>>], job |-> 0]

\* this step is the timer service running the heartbeat callback
IsTimerTick == call'.emsg = "timer" /\ handlers' = handlers /\ pc = "idle"

(* C13: a ClientLogOnResponse schedules the recurring heartbeat exactly when
   its eresult is OK, with the interval it carries and whether or not
   onLogOn is set; nothing else schedules a timer; and each run of the
   timer's callback sends one ClientHeartBeat, marked encrypted. *)
C13_HeartbeatScheduledIffLogonOk ==
    [][/\ IsDelivery("ClientLogOnResponse")
            => /\ EventsOf(conn'.trace, "setInterval")
                    = IF call'.data[1] = 1
                      THEN <<[ev |-> "setInterval", interval |-> call'.data[2]]>>
                      ELSE <<>>
               /\ conn'.timers
                    = IF call'.data[1] = 1
                      THEN Append(conn.timers, call'.data[2])
                      ELSE conn.timers
       /\ conn'.timers # conn.timers => IsDelivery("ClientLogOnResponse")
       /\ IsTimerTick
            => /\ conn.timers # <<>>
               /\ conn'.trace = <<HeartBeatSend>>]_vars

C13_Witness ==
    /\ call.emsg = "timer"
    /\ conn.trace = <<HeartBeatSend>>
    /\ conn.timers = <<30>>
    /\ "onLogOn" \notin handlers
    /\ ~conn.encrypted

(* C14: HandleMessage called with a kind that has no case changes nothing:
   the encrypted flag, the session key and the timers keep their values, no
   callback is invoked and nothing is sent. *)
C14_UnhandledKindChangesNothing ==
    [][(call'.emsg \in OtherKinds /\ handlers' = handlers /\ pc = "idle")
        => /\ conn'.encrypted = conn.encrypted
           /\ conn'.sessionKey = conn.sessionKey
           /\ conn'.timers = conn.timers
           /\ conn'.hsCalls = conn.hsCalls
           /\ conn'.status = conn.status
           /\ Effects(conn'.trace) = <<>>]_vars

C14_Witness ==
    /\ call.emsg = "ClientLoggedOff"
    /\ handlers = Callbacks
    /\ ~conn.encrypted
    /\ conn.sessionKey = 1
    /\ conn.timers # <<>>
    /\ Effects(conn.trace) = <<>>

----------------------------------------------------------------------------
(* Sub-envelopes of a batch *)

\* the job ids HandleMessage was entered with for the sub-messages of the
\* outermost batch
SubJobs(tr) ==
    LET enters == SelectSeq(tr, LAMBDA e : e.ev = "enter" /\ e.depth = 2)
    IN  [i \in 1..Len(enters) |-> enters[i].job]

\* the job ids in the headers of the records that hold a header
HeaderJobs(p) ==
    LET headed == SelectSeq(RecordsOf(p), LAMBDA r : Len(r.bytes) >= 2)
    IN  [i \in 1..Len(headed) |-> headed[i].bytes[2]]

----------------------------------------------------------------------------
(* The session key *)

RequestEnters(tr) ==
    SelectSeq(tr, LAMBDA e : e.ev = "enter" /\ e.emsg = "ChannelEncryptRequest")

(* C16, as claimed: once a handshake has produced a key, no later message,
   a further ChannelEncryptRequest included, replaces it. *)
C16_KeyNeverReplaced ==
    [][conn.sessionKey # NoKey => conn'.sessionKey = conn.sessionKey]_vars

(* C16, amended: the session key is written only while a
   ChannelEncryptRequest is handled, and every ChannelEncryptRequest that is
   handled, a second or later one included, generates a new key that
   replaces the one before. *)
C16_KeyPerRequest ==
    [][handlers' = handlers
        => conn'.sessionKey
            = conn.sessionKey
                + (IF conn' = conn THEN 0 ELSE Len(RequestEnters(conn'.trace)))]_vars

C16_Witness ==
    /\ call.emsg = "ChannelEncryptRequest"
    /\ conn.sessionKey = 2
    /\ conn.encrypted

----------------------------------------------------------------------------
(* The decompression buffer *)

\* the positions of the events of a kind in a trace
Positions(tr, ev) == {i \in 1..Len(tr) : tr[i].ev = ev}

(* C17: handling a Multi allocates a buffer exactly when size_unzipped > 0;
   when HandleMessage returns the buffer has been released exactly once,
   after the last sub-message was dispatched, and when none was allocated
   none is released. *)
C17_BufferLivesForTheWalk ==
    (pc = "done" /\ call.emsg = "Multi")
        => /\ Cardinality(Positions(conn.trace, "new"))
                = (IF call.data[1] > 0 THEN 1 ELSE 0)
           /\ Cardinality(Positions(conn.trace, "delete"))
                <= Cardinality(Positions(conn.trace, "new"))
           /\ \A i \in Positions(conn.trace, "new") :
                \A j \in Positions(conn.trace, "dispatch") : i < j
           /\ conn.status = "running"
                => /\ Cardinality(Positions(conn.trace, "delete"))
                        = Cardinality(Positions(conn.trace, "new"))
                   /\ \A i \in Positions(conn.trace, "delete") :
                        /\ i = Len(conn.trace) - 1
                        /\ \A j \in Positions(conn.trace, "dispatch") : j < i

C17_Witness ==
    /\ pc = "done"
    /\ Compressed(call)
    /\ conn.status = "running"
    /\ Cardinality(Positions(conn.trace, "dispatch")) = 2
    /\ Positions(conn.trace, "delete") = {Len(conn.trace) - 1}

----------------------------------------------------------------------------
(* Nesting and termination of the walk *)

(* C18, as claimed: HandleMessage is never entered at a depth above 2. *)
C18_DepthAtMostTwo ==
    \A i \in 1..Len(conn.trace) :
        conn.trace[i].ev = "enter" => conn.trace[i].depth <= 2

\* the sub-envelope is an uncompressed Multi that holds a record
IsBatchWithRecord(bytes) ==
    /\ Len(bytes) >= HdrLen + 1 + LenField
    /\ bytes[1] = EMsgCode("Multi")
    /\ bytes[HdrLen + 1] = 0

(* C18, amended: the code sets no bound on the nesting: a sub-message of
   kind Multi is expanded like the outermost one, so HandleMessage is entered
   at depth 1 + the number of Multi messages around the sub-message, which
   is 2 only for a batch that holds no Multi. *)
C18_DepthFollowsNesting ==
    \A i \in 1..Len(conn.trace) :
        /\ conn.trace[i].ev = "enter"
            => /\ conn.trace[i].depth = Len(OpenCalls(conn.trace, i))
               /\ \A k \in 1..(conn.trace[i].depth - 1) :
                    OpenCalls(conn.trace, i)[k] = "Multi"
        /\ (conn.trace[i].ev = "dispatch" /\ IsBatchWithRecord(conn.trace[i].bytes))
            => /\ Len(conn.trace) >= i + 2
               /\ conn.trace[i + 1].ev = "enter"
               /\ conn.trace[i + 1].emsg = "Multi"
               /\ conn.trace[i + 1].depth = conn.trace[i].depth + 1
               /\ conn.trace[i + 2].ev = "dispatch"
               /\ conn.trace[i + 2].depth = conn.trace[i].depth + 1

C18_Witness ==
    \E i \in 1..Len(conn.trace) :
        /\ conn.trace[i].ev = "enter"
        /\ conn.trace[i].depth = 3
        /\ conn.trace[i].emsg = "ChannelEncryptResult"

(* C19: the record walk ends for every payload, whatever the values of the
   length fields.  The code does not keep to it: 4 + subSize is computed
   modulo 2^32, so a length field of 2^32 - 4 leaves the offset where it is
   and the loop dispatches the same record for ever. *)
C19_WalkTerminates == pc = "done" => conn.status # "hung"

----------------------------------------------------------------------------
(* The marker of the sends *)

MarkedKinds == {"ClientHeartBeat", "ClientUpdateMachineAuthResponse"}

(* C20, as claimed: a message is sent with the marker set only when the
   encrypted flag is true (the flag never goes back, so it is true after the
   call if it was when the message was sent). *)
C20_MarkedOnlyWhenEncrypted ==
    \A i \in 1..Len(conn.trace) :
        (conn.trace[i].ev = "send" /\ conn.trace[i].marked) => conn.encrypted

(* C20, amended: the marker of a send is fixed by the kind of the message
   and does not depend on the encrypted flag: a ChannelEncryptResponse is
   sent unmarked, a ClientHeartBeat and a ClientUpdateMachineAuthResponse
   are sent marked, also while the flag is false. *)
C20_MarkerFixedByKind ==
    \A i \in 1..Len(conn.trace) :
        conn.trace[i].ev = "send"
            => /\ conn.trace[i].emsg \in MarkedKinds \cup {"ChannelEncryptResponse"}
               /\ conn.trace[i].marked = (conn.trace[i].emsg \in MarkedKinds)

C20_Witness ==
    /\ ~conn.encrypted
    /\ call.emsg = "ClientUpdateMachineAuth"
    /\ \E i \in 1..Len(conn.trace) :
        /\ conn.trace[i].ev = "send"
        /\ conn.trace[i].emsg = "ClientUpdateMachineAuthResponse"
        /\ conn.trace[i].marked

====
